---- MODULE Spec2Model ----
(***************************************************************************)
(* A model of the 100-prisoner-problem simulator: the attempt schema, the  *)
(* two selection algorithms (RandomSelect, LoopSelect), one Trial and the  *)
(* Simulation that repeats trials and accumulates their results.           *)
(*                                                                         *)
(* Python values are represented as follows.  A list or numpy array is a   *)
(* sequence; Python's 0-based index k is position k+1.  An optional value  *)
(* (a key that may be missing from a dictionary, or a value that may be    *)
(* None) is a sequence of length 0 or 1: << >> is "missing or None", <<v>> *)
(* is the value v.  The rounding flag 'lower' is one of the strings of     *)
(* LowerValues.  A raised exception is recorded by its class name in err.  *)
(***************************************************************************)
EXTENDS Integers, Sequences, FiniteSets, TLC

\* ------------------------------------------------------------------ bounds

\* One Trial: the largest number of envelopes (and prisoners) when only
\* LoopSelect runs, and when RandomSelect runs too (its runs branch on every
\* random index, so its trials are kept one size smaller).
MaxEnvelopes == 4
MaxRandomEnvelopes == 3
\* One Trial: 'param' ranges over -1..MaxParam (and missing).
MaxParam == 5
\* A whole Simulation: the largest nPrisoners, nEnvelopes and nTrials.
MaxSimPrisoners == 2
MaxSimEnvelopes == 3
MaxTrials == 2
\* AttemptSchema alone: the largest number of envelopes and the largest |param|.
MaxSchemaEnvelopes == 8
MaxSchemaParam == 4
\* stats() alone: the largest number of prisoners (rows) and trials (columns).
MaxStatsRows == 2
MaxStatsCols == 3

\* ------------------------------------------------------- Python primitives

\* Python's list[k], 0-based.
At(list, k) == list[k + 1]

\* Python's list[:k] for 0 <= k <= len(list).
SliceTo(list, k) == SubSeq(list, 1, k)

\* Python's list[-k:] for 0 <= k <= len(list): the last k elements, and the
\* whole list when k = 0 (because -0 is 0, the slice is list[0:]).
SliceFromNeg(list, k) ==
    IF k = 0 THEN list ELSE SubSeq(list, Len(list) - k + 1, Len(list))

\* Python's a / b on integers, b # 0: the exact quotient, kept as a fraction
\* with a positive denominator (the values here are far below 2^53, so the
\* float quotient rounds to the same integer as the exact one).
TrueDiv(a, b) == IF b > 0 THEN [num |-> a, den |-> b] ELSE [num |-> -a, den |-> -b]

\* math.floor and math.ceil of such a quotient.
MathFloor(q) == q.num \div q.den
MathCeil(q) == -((-q.num) \div q.den)

\* Python's int(a / b) for a >= 0, b > 0 (truncation toward zero).
IntOfDiv(a, b) == a \div b

\* np.arange(0, n) as a sequence.
Arange(n) == [k \in 1..n |-> k - 1]

\* The outcomes of np.random.shuffle on np.arange(0, n): every permutation.
Shuffles(n) ==
    {s \in [1..n -> 0..(n - 1)] : \A a, b \in 1..n : a # b => s[a] # s[b]}

\* ------------------------------------------------------------ AttemptSchema

LowerValues == {"missing", "True", "False"}

\* AttemptSchema._round with lower == True replaced by lower == False.
RoundSwapped(attempts, lower) ==
    IF lower = "False" THEN MathFloor(attempts) ELSE MathCeil(attempts)

\* AttemptSchema._round: floor when lower == True, else ceil.
Round(attempts, lower) ==
    IF lower = "True" THEN MathFloor(attempts) ELSE MathCeil(attempts)

\* AttemptSchema._default: half the envelopes, rounded.
Default(nEnvelopes, lower) == Round(TrueDiv(nEnvelopes, 2), lower)

\* AttemptSchema._modified with a non-zero integer param.
Modified(nEnvelopes, param, lower) == Round(TrueDiv(nEnvelopes, param), lower)

\* AttemptSchema.__init__: the exception it raises, or "none".  The options
\* are the keyword arguments an Algorithm was constructed with: schema and
\* param are optional (defaults 'default' and None), lower is popped and so
\* must be present.
SchemaRaises(kw) ==
    IF kw.lower = "missing" THEN "KeyError"
    ELSE IF kw.schema # << >> /\ kw.schema \notin {<<"default">>, <<"modified">>}
         THEN "KeyError"
    ELSE IF kw.schema = <<"modified">> /\ kw.param = << >> THEN "TypeError"
    ELSE IF kw.schema = <<"modified">> /\ kw.param = <<0>> THEN "ZeroDivisionError"
    ELSE "none"

\* AttemptSchema.attempts when __init__ does not raise.
SchemaAttempts(nEnvelopes, kw) ==
    IF kw.schema = <<"modified">>
    THEN Modified(nEnvelopes, kw.param[1], kw.lower)
    ELSE Default(nEnvelopes, kw.lower)

\* ---------------------------------------------------------------- variables

VARIABLES
    \* Simulation
    simPc,        \* "none" (no Simulation object), "new", "rejected", "ready",
                  \* "loop", "trial", "done", "raised"
    config,       \* the keyword arguments, then Config.config (reqs and opts)
    i,            \* simulate()'s loop variable; -1 while it is unbound
    results,      \* Simulation._results: per algorithm, the data and extra tables
    stats,        \* what stats() produced when last called on the present tables
    progress,     \* the trial indices printed by the progress report
    err,          \* the class of the exception that ended the run, or "none"
    \* Trial
    trialPc,      \* "idle", "init", "run", "returned", "raised", and for the
                  \* AttemptSchema-only model "schema", "schema_done"
    nPrisoners,   \* len(Trial._prisoners)
    algorithms,   \* Trial._algorithms
    kwargs,       \* Trial._kwargs: lower, schema, param
    envelopes,    \* Trial._envelopes
    algIdx,       \* position in algorithms of the algorithm being run
    prisoner,     \* the prisoner being run
    result,       \* Trial._run_algos's result, per algorithm data and extra
    \* Algorithm instance and its _run
    attempts, unchecked, success, check, loop_size, brk,
    budget,       \* history: Algorithm._attempts as set by __init__
    opened,       \* history: the envelope contents revealed so far in this _run
    out           \* history: what the last select() returned, and for whom

simVars == <<simPc, config, i, results, stats, progress>>
trialVars == <<trialPc, nPrisoners, algorithms, kwargs, envelopes, algIdx, prisoner, result>>
algoVars == <<attempts, unchecked, success, check, loop_size, brk, budget, opened, out>>
vars == <<simVars, err, trialVars, algoVars>>

AlgorithmTuples == {<<"RandomSelect">>, <<"LoopSelect">>, <<"RandomSelect", "LoopSelect">>}

\* The algorithm being run (the loop variable of Trial._run_algos).
algorithm == algorithms[algIdx]

\* Trial._run_algo's fresh result, one per algorithm of the tuple.
EmptyResult(algs) ==
    [a \in {algs[k] : k \in 1..Len(algs)} |-> [data |-> << >>, extra |-> << >>]]

NoOut == << >>

\* The state of the Algorithm instance's variables before any instance exists.
AlgoIdle ==
    /\ attempts = 0 /\ unchecked = << >> /\ success = FALSE /\ check = 0
    /\ loop_size = 0 /\ brk = FALSE /\ budget = 0 /\ opened = << >> /\ out = NoOut

TrialIdle ==
    /\ trialPc = "idle" /\ nPrisoners = 0 /\ algorithms = << >>
    /\ kwargs = [lower |-> "missing", schema |-> << >>, param |-> << >>]
    /\ envelopes = << >> /\ algIdx = 1 /\ prisoner = 0 /\ result = << >>

SimNone ==
    /\ simPc = "none" /\ config = << >> /\ i = -1 /\ results = << >>
    /\ stats = [raised |-> "unset", success |-> << >>, peak |-> << >>]
    /\ progress = << >>

\* ------------------------------------------------------------------- Trial

\* The keyword arguments a Trial hands to every Algorithm: 'schema' and
\* 'param' may be missing, 'param' is an integer when present.
ParamValues == {<< >>} \cup {<<d>> : d \in (-1)..MaxParam}
SchemaValues == {<< >>, <<"default">>, <<"modified">>}
TrialKwargs ==
    {kw \in [lower : LowerValues, schema : SchemaValues, param : ParamValues] :
        kw.schema # <<"modified">> => kw.param \in {<< >>, <<2>>}}

\* The largest trial modelled for a tuple of algorithms.
TrialSize(algs) ==
    IF \E k \in 1..Len(algs) : algs[k] = "RandomSelect"
    THEN MaxRandomEnvelopes ELSE MaxEnvelopes

\* Trial.__init__ called directly: the prisoners, the shuffled envelopes (at
\* least as many as prisoners, which Config guarantees to simulate()'s trials).
TrialInit ==
    /\ SimNone
    /\ err = "none"
    /\ trialPc = "init"
    /\ algorithms \in AlgorithmTuples
    /\ nPrisoners \in 1..TrialSize(algorithms)
    /\ \E n \in nPrisoners..TrialSize(algorithms) : envelopes \in Shuffles(n)
    /\ kwargs \in TrialKwargs
    /\ algIdx = 1
    /\ prisoner = 0
    /\ result = EmptyResult(algorithms)
    /\ AlgoIdle

\* Trial._run_algo line 52 and the start of select(): Algorithm.__init__ builds
\* the AttemptSchema (which may raise) and copies the envelopes; _run
\* initialises its locals.
AlgoInit ==
    /\ trialPc = "init"
    /\ IF SchemaRaises(kwargs) # "none"
       THEN /\ trialPc' = "raised"
            /\ err' = SchemaRaises(kwargs)
            /\ simPc' = IF simPc = "trial" THEN "raised" ELSE simPc
            /\ UNCHANGED <<config, i, results, stats, progress>>
            /\ UNCHANGED <<nPrisoners, algorithms, kwargs, envelopes, algIdx, prisoner, result>>
            /\ UNCHANGED algoVars
       ELSE /\ trialPc' = "run"
            /\ attempts' = SchemaAttempts(Len(envelopes), kwargs)
            /\ budget' = SchemaAttempts(Len(envelopes), kwargs)
            /\ unchecked' = envelopes
            /\ success' = FALSE
            /\ check' = IF algorithm = "LoopSelect" THEN prisoner ELSE -1
            /\ loop_size' = 0
            /\ brk' = FALSE
            /\ opened' = << >>
            /\ out' = NoOut
            /\ UNCHANGED <<simVars, err>>
            /\ UNCHANGED <<nPrisoners, algorithms, kwargs, envelopes, algIdx, prisoner, result>>

\* Algorithm.select's return and Trial._run_algo lines 53-57: the outcome is
\* appended to the trial's result, then the loops of _run_algo and _run_algos
\* move to the next prisoner, the next algorithm, or run_all returns.
Return(res, extras) ==
    /\ out' = <<[by |-> algorithm, prisoner |-> prisoner, result |-> res, extras |-> extras]>>
    /\ result' = [result EXCEPT ![algorithm] =
                     [data |-> Append(@.data, res), extra |-> @.extra \o extras]]
    /\ IF prisoner + 1 < nPrisoners
       THEN trialPc' = "init" /\ prisoner' = prisoner + 1 /\ algIdx' = algIdx
       ELSE IF algIdx < Len(algorithms)
       THEN trialPc' = "init" /\ prisoner' = 0 /\ algIdx' = algIdx + 1
       ELSE trialPc' = "returned" /\ prisoner' = prisoner /\ algIdx' = algIdx
    /\ UNCHANGED <<simVars, err, nPrisoners, algorithms, kwargs, envelopes>>
    /\ UNCHANGED <<attempts, unchecked, success, check, loop_size, brk, budget, opened>>

\* RandomSelect._run's loop condition with attempts >= 0 for attempts > 0.
RandomContinuesOffByOne(succ, att) == succ = FALSE /\ att >= 0

\* RandomSelect._run line 80: the loop condition.
RandomContinues(succ, att) == succ = FALSE /\ att > 0

\* RandomSelect._run line 86: the list left after opening position guess.
Removed(list, guess) == SliceTo(list, guess) \o SliceFromNeg(list, guess)

\* RandomSelect._run's iteration working on the trial's own list instead of
\* a copy: the opened envelope is removed from the assignment itself.
RandomStepInPlace ==
    /\ trialPc = "run"
    /\ algorithm = "RandomSelect"
    /\ RandomContinues(success, attempts)
    /\ unchecked # << >>
    /\ \E guess \in 0..(Len(unchecked) - 1) :
        /\ attempts' = attempts - 1
        /\ check' = At(unchecked, guess)
        /\ unchecked' = Removed(unchecked, guess)
        /\ envelopes' = Removed(unchecked, guess)
        /\ success' = (prisoner = At(unchecked, guess))
        /\ opened' = Append(opened, At(unchecked, guess))
        /\ UNCHANGED <<simVars, err, loop_size, brk, budget, out>>
        /\ UNCHANGED <<trialPc, nPrisoners, algorithms, kwargs, algIdx, prisoner, result>>

\* One iteration of RandomSelect._run's loop, for each index random.choice
\* may return (it raises IndexError on an empty list).
RandomStep ==
    /\ trialPc = "run"
    /\ algorithm = "RandomSelect"
    /\ RandomContinues(success, attempts)
    /\ IF unchecked = << >>
       THEN /\ trialPc' = "raised"
            /\ err' = "IndexError"
            /\ simPc' = IF simPc = "trial" THEN "raised" ELSE simPc
            /\ UNCHANGED <<config, i, results, stats, progress>>
            /\ UNCHANGED <<nPrisoners, algorithms, kwargs, envelopes, algIdx, prisoner, result>>
            /\ UNCHANGED algoVars
       ELSE \E guess \in 0..(Len(unchecked) - 1) :
            /\ attempts' = attempts - 1
            /\ check' = At(unchecked, guess)
            /\ unchecked' = Removed(unchecked, guess)
            /\ success' = (prisoner = At(unchecked, guess))
            /\ opened' = Append(opened, At(unchecked, guess))
            /\ UNCHANGED <<simVars, err, trialVars, loop_size, brk, budget, out>>

\* RandomSelect._run returns success alone, so select() reports no extras.
RandomReturn ==
    /\ trialPc = "run"
    /\ algorithm = "RandomSelect"
    /\ ~RandomContinues(success, attempts)
    /\ Return(success, << >>)

\* LoopSelect._run line 109 with attempts # 0 for attempts > 0.
LoopSucceedsNonZero(att) == att # 0

\* LoopSelect._run line 109: the prisoner's number was revealed; is it a success?
LoopSucceeds(att) == att > 0

\* LoopSelect._run leaving the loop as soon as the attempts are used up.
LoopBreaksOnBudget(p, chk, att) == att <= 0

\* LoopSelect._run with the break taken only when more than one attempt is
\* overdrawn.
LoopBreaksLate(p, chk, att) == p = chk /\ att < -1

\* LoopSelect._run lines 107-113: the loop is left by break when the
\* prisoner's number is revealed without attempts left.
LoopBreaks(p, chk, att) == p = chk /\ ~LoopSucceeds(att)

\* One iteration of LoopSelect._run's loop.
LoopStep ==
    /\ trialPc = "run"
    /\ algorithm = "LoopSelect"
    /\ success = FALSE /\ ~brk
    /\ attempts' = attempts - 1
    /\ loop_size' = loop_size + 1
    /\ check' = At(unchecked, check)
    /\ opened' = Append(opened, At(unchecked, check))
    /\ success' = (prisoner = At(unchecked, check) /\ LoopSucceeds(attempts - 1))
    /\ brk' = LoopBreaks(prisoner, At(unchecked, check), attempts - 1)
    /\ UNCHANGED <<simVars, err, trialVars, unchecked, budget, out>>

\* LoopSelect._run returns (success, {'loop_size': loop_size}).
LoopReturn ==
    /\ trialPc = "run"
    /\ algorithm = "LoopSelect"
    /\ success \/ brk
    /\ Return(success, <<loop_size>>)

TrialNext == AlgoInit \/ RandomStep \/ RandomReturn \/ LoopStep \/ LoopReturn

\* One Trial, constructed directly and run with run_all().
TrialSpec == TrialInit /\ [][TrialNext]_vars

\* Trial(nPrisoners, (LoopSelect,), **kwargs).
LoopTrialInit == TrialInit /\ algorithms = <<"LoopSelect">>

LoopTrialNext == AlgoInit \/ LoopStep \/ LoopReturn

\* One Trial of LoopSelect alone run with run_all(), the interpreter always
\* executing the next step: the code is single-threaded and nothing suspends
\* it.
LoopTrialSpec ==
    LoopTrialInit /\ [][LoopTrialNext]_vars /\ WF_vars(LoopTrialNext)

\* ----------------------------------------------------- AttemptSchema alone

SchemaKwargs ==
    [lower : LowerValues,
     schema : SchemaValues \cup {<<"bogus">>},
     param : {<< >>} \cup {<<d>> : d \in (-MaxSchemaParam)..MaxSchemaParam}]

\* Before AttemptSchema(envelopes, schema=..., param=..., lower=...) is called
\* directly on a list of envelopes (only its length is read).
SchemaInit ==
    /\ SimNone
    /\ err = "none"
    /\ trialPc = "schema"
    /\ nPrisoners = 0
    /\ algorithms = << >>
    /\ kwargs \in SchemaKwargs
    /\ \E n \in 0..MaxSchemaEnvelopes : envelopes = Arange(n)
    /\ algIdx = 1
    /\ prisoner = 0
    /\ result = << >>
    /\ AlgoIdle

\* AttemptSchema.__init__: it raises, or sets attempts.
SchemaCall ==
    /\ trialPc = "schema"
    /\ IF SchemaRaises(kwargs) # "none"
       THEN /\ trialPc' = "raised"
            /\ err' = SchemaRaises(kwargs)
            /\ UNCHANGED <<attempts, budget>>
       ELSE /\ trialPc' = "schema_done"
            /\ attempts' = SchemaAttempts(Len(envelopes), kwargs)
            /\ budget' = SchemaAttempts(Len(envelopes), kwargs)
            /\ err' = err
    /\ UNCHANGED <<simVars, nPrisoners, algorithms, kwargs, envelopes, algIdx, prisoner, result>>
    /\ UNCHANGED <<unchecked, success, check, loop_size, brk, opened, out>>

SchemaNext == SchemaCall

\* One AttemptSchema, constructed directly.
SchemaSpec == SchemaInit /\ [][SchemaNext]_vars

\* ------------------------------------------------------------------ Config

\* What a caller may pass for 'lower': nothing, a Boolean, or something else.
ConfigLowerValues == LowerValues \cup {"notbool"}

\* The configurations handed to Simulation(config): nPrisoners, nTrials and
\* algorithms are integers and a tuple of Algorithm subclasses (so that
\* Config._verify_reqs accepts them unchanged); the optional keys are missing
\* or set.  'param' is only given together with schema 'modified'.
RawConfigs ==
    {c \in [nPrisoners : 1..MaxSimPrisoners,
            nTrials : 0..MaxTrials,
            algorithms : AlgorithmTuples,
            lower : ConfigLowerValues,
            chunks : {<< >>} \cup {<<k>> : k \in 0..(MaxTrials + 1)},
            nEnvelopes : {<< >>} \cup {<<n>> : n \in 1..MaxSimEnvelopes},
            schema : SchemaValues \cup {<<"bogus">>},
            param : {<< >>, <<0>>, <<2>>}] :
        c.schema # <<"modified">> => c.param = << >>}

\* Config._verify_opts lines 102-118: 'lower' after verification.  A missing
\* 'lower' is set only when nPrisoners is odd.
VerifiedLower(c) ==
    IF c.lower = "missing"
    THEN IF c.nPrisoners % 2 = 1 THEN "True" ELSE "missing"
    ELSE IF c.lower \notin {"True", "False"} THEN "True" ELSE c.lower

\* Config._verify_opts lines 120-139: 'chunks' after verification (missing
\* and 0 become None).
VerifiedChunks(c) == IF c.chunks \in {<< >>, <<0>>} THEN << >> ELSE c.chunks

\* Config._verify_opts lines 141-158: 'nEnvelopes' after verification.
VerifiedEnvelopes(c) ==
    IF c.nEnvelopes = << >> THEN <<c.nPrisoners>>
    ELSE IF c.nEnvelopes[1] < c.nPrisoners THEN <<c.nPrisoners>>
    ELSE c.nEnvelopes

\* Config._verify_opts lines 160-168: 'schema' after verification.
VerifiedSchema(c) ==
    IF c.schema \in {<<"default">>, <<"modified">>} THEN c.schema ELSE <<"default">>

\* Config.__init__: the exception it raises, or "none".  Line 148 converts
\* 'chunks' (not 'nEnvelopes') to int when an integer nEnvelopes is given,
\* and int(None) raises TypeError.
ConfigRaises(c) ==
    IF c.nEnvelopes # << >> /\ VerifiedChunks(c) = << >> THEN "TypeError" ELSE "none"

\* Config.config after a successful __init__.
Verified(c) ==
    [c EXCEPT !.lower = VerifiedLower(c),
              !.chunks = VerifiedChunks(c),
              !.nEnvelopes = VerifiedEnvelopes(c),
              !.schema = VerifiedSchema(c)]

\* -------------------------------------------------------------- Simulation

\* Before Simulation(config) is called with a configuration dictionary.
Init ==
    /\ simPc = "new"
    /\ config \in RawConfigs
    /\ i = -1
    /\ results = << >>
    /\ stats = [raised |-> "unset", success |-> << >>, peak |-> << >>]
    /\ progress = << >>
    /\ err = "none"
    /\ TrialIdle
    /\ AlgoIdle

\* Simulation.__init__: the configuration is verified (parse_config) and one
\* empty result table per algorithm is created.
SimulationInit ==
    /\ simPc = "new"
    /\ IF ConfigRaises(config) # "none"
       THEN /\ simPc' = "rejected"
            /\ err' = ConfigRaises(config)
            /\ UNCHANGED <<config, results>>
       ELSE /\ simPc' = "ready"
            /\ config' = Verified(config)
            /\ results' = EmptyResult(config.algorithms)
            /\ err' = err
    /\ UNCHANGED <<i, stats, progress, trialVars, algoVars>>

\* simulate() is called on the fresh Simulation.
Simulate ==
    /\ simPc = "ready"
    /\ simPc' = "loop"
    /\ UNCHANGED <<config, i, results, stats, progress, err, trialVars, algoVars>>

\* simulate() line 170: the exception the progress condition raises, or
\* "none".  Both operands of & are evaluated, so nTrials / chunks is computed
\* even when chunks is None.
ProgressRaises(c) ==
    IF c.chunks = << >> THEN "TypeError"
    ELSE IF IntOfDiv(c.nTrials, c.chunks[1]) = 0 THEN "ZeroDivisionError"
    ELSE "none"

\* simulate() line 170: whether trial k is reported.
ProgressDue(c, k) == k % IntOfDiv(c.nTrials, c.chunks[1]) = 0

\* simulate() lines 168-176: the next iteration of the loop reports progress
\* and constructs the Trial, which shuffles its envelopes; run_all() starts.
SimulateIter ==
    /\ simPc = "loop"
    /\ i + 1 < config.nTrials
    /\ i' = i + 1
    /\ IF ProgressRaises(config) # "none"
       THEN /\ simPc' = "raised"
            /\ err' = ProgressRaises(config)
            /\ UNCHANGED <<progress, trialVars, algoVars>>
       ELSE /\ simPc' = "trial"
            /\ err' = err
            /\ progress' = IF ProgressDue(config, i + 1)
                           THEN Append(progress, i + 1) ELSE progress
            /\ trialPc' = "init"
            /\ nPrisoners' = config.nPrisoners
            /\ algorithms' = config.algorithms
            /\ kwargs' = [lower |-> config.lower, schema |-> config.schema,
                          param |-> config.param]
            /\ envelopes' \in Shuffles(config.nEnvelopes[1])
            /\ algIdx' = 1
            /\ prisoner' = 0
            /\ result' = EmptyResult(config.algorithms)
            /\ attempts' = 0 /\ unchecked' = << >> /\ success' = FALSE
            /\ check' = 0 /\ loop_size' = 0 /\ brk' = FALSE
            /\ budget' = 0 /\ opened' = << >> /\ out' = NoOut
    /\ UNCHANGED <<config, results, stats>>

\* simulate() lines 177-184: the trial's outcomes become a new column of each
\* algorithm's data table, and its extras a new column of the extra table.
Concat(tables, trialResult) ==
    [a \in DOMAIN tables |->
        [data |-> Append(tables[a].data, trialResult[a].data),
         extra |-> IF trialResult[a].extra = << >> THEN tables[a].extra
                   ELSE Append(tables[a].extra, trialResult[a].extra)]]

\* The trial's run_all() has returned: its results are stored.
TrialEnd ==
    /\ simPc = "trial"
    /\ trialPc = "returned"
    /\ results' = Concat(results, result)
    /\ simPc' = "loop"
    /\ stats' = [raised |-> "unset", success |-> << >>, peak |-> << >>]
    /\ UNCHANGED <<config, i, progress, err, trialVars, algoVars>>

\* simulate() lines 185-187: after the last trial.  The final message reads
\* the loop variable, which is unbound when the loop ran no iteration.
SimulateEnd ==
    /\ simPc = "loop"
    /\ i + 1 >= config.nTrials
    /\ IF config.chunks # << >> /\ i = -1
       THEN simPc' = "raised" /\ err' = "UnboundLocalError"
       ELSE simPc' = "done" /\ err' = err
    /\ UNCHANGED <<config, i, results, stats, progress, trialVars, algoVars>>

\* The number of True values of a column (a pandas sum of Booleans).
RECURSIVE ColumnSum(_)
ColumnSum(col) ==
    IF col = << >> THEN 0
    ELSE (IF Head(col) THEN 1 ELSE 0) + ColumnSum(Tail(col))

\* DataFrame.sum(): one sum per trial column.
Sums(data) == [c \in 1..Len(data) |-> ColumnSum(data[c])]

\* Series.value_counts(): for each value that occurs, how often it occurs.
ValueCounts(sums) ==
    [v \in {sums[c] : c \in 1..Len(sums)} |->
        Cardinality({c \in 1..Len(sums) : sums[c] = v})]

\* stats() lines 137-140 with the count of the columns that are not all True.
SuccessCountInverted(data, n) ==
    Len(data) - (IF n \in DOMAIN ValueCounts(Sums(data))
                 THEN ValueCounts(Sums(data))[n] ELSE 0)

\* stats() lines 137-140: the number of columns whose sum is nPrisoners.
SuccessCount(data, n) ==
    IF n \in DOMAIN ValueCounts(Sums(data)) THEN ValueCounts(Sums(data))[n] ELSE 0

\* stats() line 141 taking the largest sum instead of the most frequent one.
PeaksLargest(data) ==
    {v \in DOMAIN ValueCounts(Sums(data)) :
        \A w \in DOMAIN ValueCounts(Sums(data)) : w <= v}

\* stats() line 141: value_counts().idxmax() is a value with the largest
\* count; which one of several with the same count is left to pandas.
Peaks(data) ==
    {v \in DOMAIN ValueCounts(Sums(data)) :
        \A w \in DOMAIN ValueCounts(Sums(data)) :
            ValueCounts(Sums(data))[w] <= ValueCounts(Sums(data))[v]}

\* stats(), called when simulate() is not running.  On a table without
\* columns idxmax() raises ValueError.
Stats ==
    /\ simPc \in {"ready", "done", "raised"}
    /\ IF \E a \in DOMAIN results : results[a].data = << >>
       THEN stats' = [raised |-> "ValueError", success |-> << >>, peak |-> << >>]
       ELSE \E pk \in [DOMAIN results -> 0..config.nPrisoners] :
            /\ \A a \in DOMAIN results : pk[a] \in Peaks(results[a].data)
            /\ stats' = [raised |-> "none",
                         success |-> [a \in DOMAIN results |->
                                         SuccessCount(results[a].data, config.nPrisoners)],
                         peak |-> pk]
    /\ UNCHANGED <<simPc, config, i, results, progress, err, trialVars, algoVars>>

Next ==
    \/ SimulationInit \/ Simulate \/ SimulateIter \/ TrialEnd \/ SimulateEnd
    \/ Stats
    \/ AlgoInit \/ RandomStep \/ RandomReturn \/ LoopStep \/ LoopReturn

\* A Simulation from its construction to the end of simulate(), and stats().
Spec == Init /\ [][Next]_vars

\* ------------------------------------------------------------ stats() alone

\* The tables of Booleans with the given numbers of rows and columns.
Tables(rows, cols) == [1..cols -> [1..rows -> BOOLEAN]]

\* A Simulation whose simulate() has completed nTrials >= 1 trials of
\* RandomSelect with one envelope more than prisoners, progress reported at
\* every trial: every table of outcomes is one such a run can produce.  (The
\* last Trial and its Algorithm are no longer referenced.)
StatsInit ==
    /\ simPc = "done"
    /\ \E n \in 1..MaxStatsRows, t \in 1..MaxStatsCols :
        /\ config = [nPrisoners |-> n, nTrials |-> t,
                     algorithms |-> <<"RandomSelect">>, lower |-> "True",
                     chunks |-> <<1>>, nEnvelopes |-> <<n + 1>>,
                     schema |-> <<"default">>, param |-> << >>]
        /\ i = t - 1
        /\ progress = Arange(t)
        /\ \E data \in Tables(n, t) :
            results = [a \in {"RandomSelect"} |-> [data |-> data, extra |-> << >>]]
    /\ stats = [raised |-> "unset", success |-> << >>, peak |-> << >>]
    /\ err = "none"
    /\ TrialIdle
    /\ AlgoIdle

StatsNext == Stats

\* stats() on the tables of a completed simulation.
StatsSpec == StatsInit /\ [][StatsNext]_vars

\* ------------------------------------------------------------------ claims

\* The permutation the envelopes define, applied k times to x.
RECURSIVE Follow(_, _, _)
Follow(env, x, k) == IF k = 0 THEN x ELSE Follow(env, env[x + 1], k - 1)

\* The length of the cycle of the permutation that contains x: the number of
\* openings after which following the cycle from slot x reveals x.
CycleLen(env, x) ==
    CHOOSE k \in 1..Len(env) :
        /\ Follow(env, x, k) = x
        /\ \A j \in 1..(k - 1) : Follow(env, x, j) # x

LongestCycle(env) ==
    CHOOSE m \in 1..Len(env) :
        /\ \E x \in 0..(Len(env) - 1) : CycleLen(env, x) = m
        /\ \A x \in 0..(Len(env) - 1) : CycleLen(env, x) <= m

\* select() has returned for the current instance of the named algorithm.
Reported(name) == out # NoOut /\ out[1].by = name

\* C1: for a budget a >= 1, LoopSelect reports success exactly when the
\* cycle containing the prisoner has length <= a (so a prisoner whose number
\* is revealed on the a-th opening succeeds).
C1_LoopSucceedsIffCycleWithinBudget ==
    (Reported("LoopSelect") /\ budget >= 1) =>
        (out[1].result <=> CycleLen(envelopes, out[1].prisoner) <= budget)

\* C2: with as many envelopes as prisoners, LoopSelect succeeds for all
\* prisoners of a trial exactly when the longest cycle of the envelopes is no
\* longer than the attempt budget.
C2_AllSucceedIffLongestCycleWithinBudget ==
    (/\ trialPc = "returned"
     /\ "LoopSelect" \in DOMAIN result
     /\ nPrisoners = Len(envelopes)) =>
        ((\A p \in 1..nPrisoners : result["LoopSelect"].data[p])
            <=> LongestCycle(envelopes) <= budget)

\* Scenario B: 4 prisoners, 4 envelopes forming the single cycle [1,2,3,0],
\* the default schema rounded down (budget 2), LoopSelect alone.
ScenarioB ==
    /\ nPrisoners = 4
    /\ envelopes = <<1, 2, 3, 0>>
    /\ algorithms = <<"LoopSelect">>
    /\ kwargs = [lower |-> "True", schema |-> <<"default">>, param |-> << >>]

\* C3 as stated: when the prisoner's cycle is longer than the budget,
\* LoopSelect reports failure and a loop_size equal to the budget (stated
\* for budgets >= 1, where "the openings made when the budget ran out" is
\* the budget itself).
C3_LoopSizeIsBudgetWhenCycleTooLong ==
    (/\ Reported("LoopSelect")
     /\ budget >= 1
     /\ CycleLen(envelopes, out[1].prisoner) > budget) =>
        (out[1].result = FALSE /\ out[1].extras = <<budget>>)

\* C3 as amended: when the prisoner's cycle is longer than the budget,
\* LoopSelect reports failure and a loop_size equal to the full length of the
\* cycle; in scenario B every prisoner fails with loop_size 4.
C3_LoopSizeIsCycleLenWhenCycleTooLong ==
    /\ (/\ Reported("LoopSelect")
        /\ CycleLen(envelopes, out[1].prisoner) > budget) =>
           (/\ out[1].result = FALSE
            /\ out[1].extras = <<CycleLen(envelopes, out[1].prisoner)>>)
    /\ (ScenarioB /\ trialPc = "returned") =>
           (/\ budget = 2
            /\ result["LoopSelect"].data = <<FALSE, FALSE, FALSE, FALSE>>
            /\ result["LoopSelect"].extra = <<4, 4, 4, 4>>)

\* C3's case: scenario B has run to the end.
C3_Witness == ScenarioB /\ trialPc = "returned"

\* Whether a sequence holds no value twice.
NoRepeat(list) == \A a, b \in 1..Len(list) : a # b => list[a] # list[b]

\* The values of a sequence.
Values(list) == {list[k] : k \in 1..Len(list)}

\* C4: within one RandomSelect run no envelope is opened twice: the
\* candidate list holds exactly the envelopes not yet opened, once each, and
\* so shrinks by one per opening.
C4_RandomNeverReopens ==
    (trialPc = "run" /\ algorithm = "RandomSelect") =>
        /\ NoRepeat(opened)
        /\ NoRepeat(unchecked)
        /\ Values(unchecked) = Values(envelopes) \ Values(opened)
        /\ Len(unchecked) = Len(envelopes) - Len(opened)

\* C5: RandomSelect with a budget <= 0 opens no envelope, reports failure
\* and reports no extras.
C5_RandomFailsWithoutBudget ==
    /\ (trialPc = "run" /\ algorithm = "RandomSelect" /\ budget <= 0) =>
           (opened = << >> /\ attempts = budget /\ success = FALSE)
    /\ (Reported("RandomSelect") /\ budget <= 0) =>
           (opened = << >> /\ out[1].result = FALSE /\ out[1].extras = << >>)

\* C5's case: a RandomSelect run with a budget <= 0 has returned.
C5_Witness == Reported("RandomSelect") /\ budget <= 0

\* C10 as stated: LoopSelect with a budget <= 0 reports failure with
\* loop_size 0 or 1.
C10_LoopSizeAtMostOneWithoutBudget ==
    (Reported("LoopSelect") /\ budget <= 0) =>
        (out[1].result = FALSE /\ out[1].extras \in {<<0>>, <<1>>})

\* C10 as amended: LoopSelect with a budget <= 0 reports failure with
\* loop_size equal to the length of the prisoner's cycle (every envelope of
\* the cycle is opened).
C10_LoopSizeIsCycleLenWithoutBudget ==
    (Reported("LoopSelect") /\ budget <= 0) =>
        /\ out[1].result = FALSE
        /\ out[1].extras = <<CycleLen(envelopes, out[1].prisoner)>>
        /\ Len(opened) = CycleLen(envelopes, out[1].prisoner)

\* C10's case: a LoopSelect run with a budget <= 0 on a cycle of 3 or more
\* envelopes has returned.
C10_Witness ==
    /\ Reported("LoopSelect")
    /\ budget <= 0
    /\ CycleLen(envelopes, out[1].prisoner) >= 3

\* n / d rounded down, and rounded up, stated by the inequalities that define
\* them (d # 0).
IsFloorOf(k, n, d) ==
    IF d > 0 THEN k * d <= n /\ n < (k + 1) * d
    ELSE k * d >= n /\ n > (k + 1) * d

IsCeilOf(k, n, d) ==
    IF d > 0 THEN (k - 1) * d < n /\ n <= k * d
    ELSE (k - 1) * d > n /\ n >= k * d

\* The divisor the schema of the keyword arguments stands for.
DivisorOf(kw) == IF kw.schema = <<"modified">> THEN kw.param[1] ELSE 2

\* C6: the budget is floor(n/2) or ceil(n/2) under 'default' and floor(n/d)
\* or ceil(n/d) under 'modified' with a non-zero divisor d, floor when lower
\* is true and ceil when it is false; such a schema never raises, and
\* 'modified' with d = 2 gives the budget 'default' gives.
C6_BudgetIsRoundedQuotient ==
    /\ trialPc = "schema_done" =>
           IF kwargs.lower = "True"
           THEN IsFloorOf(attempts, Len(envelopes), DivisorOf(kwargs))
           ELSE IsCeilOf(attempts, Len(envelopes), DivisorOf(kwargs))
    /\ (trialPc = "schema_done" /\ kwargs.schema = <<"modified">> /\ kwargs.param = <<2>>) =>
           attempts = Default(Len(envelopes), kwargs.lower)
    /\ (/\ trialPc = "raised"
        /\ kwargs.lower # "missing"
        /\ kwargs.schema \in SchemaValues) =>
           (kwargs.schema = <<"modified">> /\ kwargs.param \in {<< >>, <<0>>})

\* C6's case: 7 envelopes, 'modified' with divisor 3, rounded up.
C6_Witness ==
    /\ trialPc = "schema_done"
    /\ Len(envelopes) = 7
    /\ kwargs = [lower |-> "False", schema |-> <<"modified">>, param |-> <<3>>]
    /\ attempts = 3

\* A configuration that selects 'modified' with a zero or missing divisor.
BadDivisor(c) == c.schema = <<"modified">> /\ c.param \in {<< >>, <<0>>}

\* C7: a configuration selecting 'modified' with a zero or missing divisor
\* is rejected when the Simulation is constructed: it never gets past
\* construction, no trial is started and no algorithm is instantiated.
C7_BadDivisorRejectedAtConstruction ==
    BadDivisor(config) =>
        (simPc \in {"new", "rejected"} /\ trialPc = "idle")

\* C8: when simulate() has ended, every algorithm's data table has nTrials
\* columns of nPrisoners rows; between trials it has one column per
\* completed trial.
C8_TablesHaveTColumnsNRows ==
    /\ simPc \in {"done", "raised"} =>
           \A a \in DOMAIN results :
               /\ Len(results[a].data) = config.nTrials
               /\ \A c \in 1..Len(results[a].data) :
                      Len(results[a].data[c]) = config.nPrisoners
    /\ simPc = "loop" =>
           \A a \in DOMAIN results : Len(results[a].data) = i + 1

\* The number of successful prisoners of trial column c, and the number of
\* trial columns with v successful prisoners.
Successful(data, c) == Cardinality({r \in 1..Len(data[c]) : data[c][r]})
Frequency(data, v) == Cardinality({c \in 1..Len(data) : Successful(data, c) = v})

\* C9: on tables with at least one trial column stats() does not fail and
\* returns, per algorithm, success = the number of columns in which every
\* prisoner's row is True, and peak = a per-column count of successful
\* prisoners that occurs in the largest number of columns.
C9_StatsCountsSuccessAndPeak ==
    /\ stats.raised = "none" =>
           \A a \in DOMAIN results :
               /\ stats.success[a] =
                      Cardinality({c \in 1..Len(results[a].data) :
                          \A r \in 1..Len(results[a].data[c]) : results[a].data[c][r]})
               /\ Frequency(results[a].data, stats.peak[a]) >= 1
               /\ \A v \in 0..config.nPrisoners :
                      Frequency(results[a].data, v)
                          <= Frequency(results[a].data, stats.peak[a])
    /\ stats.raised = "ValueError" =>
           \E a \in DOMAIN results : results[a].data = << >>

\* C9's case: stats() has run on three trials of two prisoners, one trial
\* with both successful and two with one.
C9_Witness ==
    /\ stats.raised = "none"
    /\ results["RandomSelect"].data =
           <<<<TRUE, TRUE>>, <<FALSE, TRUE>>, <<TRUE, FALSE>>>>
    /\ stats.success["RandomSelect"] = 1
    /\ stats.peak["RandomSelect"] = 1

\* A LoopSelect run is under way for the current prisoner.
LoopRunning == trialPc = "run" /\ algorithm = "LoopSelect"

\* C11: for every permutation and every budget a LoopSelect run terminates.
\* It never opens more envelopes than its cycle holds, opens none twice, has
\* left the loop once its own number is revealed, and every run that is
\* under way ends with select() returning.
C11_LoopTerminates ==
    /\ [](LoopRunning =>
            /\ loop_size = Len(opened)
            /\ loop_size <= CycleLen(envelopes, prisoner)
            /\ \A k \in 1..Len(opened) : opened[k] = Follow(envelopes, prisoner, k)
            /\ (opened # << >> /\ opened[Len(opened)] = prisoner) => (success \/ brk)
            /\ (success \/ brk) => loop_size = CycleLen(envelopes, prisoner))
    /\ [](LoopRunning => <>Reported("LoopSelect"))

\* C11's case: a LoopSelect run with a budget smaller than its cycle of 3 or
\* more envelopes has revealed the prisoner's number and left the loop.
C11_Witness ==
    /\ LoopRunning
    /\ brk
    /\ budget >= 1
    /\ budget < CycleLen(envelopes, prisoner)
    /\ CycleLen(envelopes, prisoner) >= 3

\* C12: the assignment shuffled at Trial construction is never changed by any
\* step of the trial: every select() starts from a copy equal to it, a
\* LoopSelect run reads that copy unaltered, and no step of either strategy,
\* for any prisoner and either order position, alters the assignment.
C12_AssignmentNeverChanged ==
    /\ [](LoopRunning => unchecked = envelopes)
    /\ [][/\ envelopes' = envelopes
          /\ (trialPc = "init" /\ trialPc' = "run") => unchecked' = envelopes']_vars

\* C12's case: a trial of both strategies and several prisoners has run to
\* the end, the last run having opened envelopes.
C12_Witness ==
    /\ trialPc = "returned"
    /\ algorithms = <<"RandomSelect", "LoopSelect">>
    /\ nPrisoners >= 2
    /\ budget >= 1
    /\ Len(result["RandomSelect"].data) = nPrisoners
    /\ Len(opened) >= 2

\* simulate() has been entered on an accepted configuration.
Simulating == simPc \in {"loop", "trial", "done", "raised"}

\* C13: without a cadence (chunks None) simulate() reports no progress and
\* still runs all nTrials trials; with a cadence, whatever accepted integer it
\* is, progress is reported only with indices of trials begun, in order, and
\* the run still completes: simulate() itself never raises (only a trial
\* may), and when it is done every table holds nTrials columns.
C13_ProgressOnlyWithCadenceAndRunCompletes ==
    Simulating =>
        /\ config.chunks = << >> => progress = << >>
        /\ \A k \in 1..Len(progress) :
               /\ progress[k] \in 0..i
               /\ k > 1 => progress[k - 1] < progress[k]
        /\ simPc = "raised" => trialPc = "raised"
        /\ simPc = "done" =>
               \A a \in DOMAIN results : Len(results[a].data) = config.nTrials

\* Config accepted the configuration: Simulation.__init__ returned.
Accepted == simPc \in {"ready", "loop", "trial", "done", "raised"}

\* C14: every configuration Config accepts carries a Boolean 'lower', for an
\* odd and for an even nPrisoners, supplied by the caller or not; so do the
\* options handed to each Trial, and no AttemptSchema fails on a missing
\* 'lower' during simulate().
C14_AcceptedConfigCarriesBooleanLower ==
    /\ Accepted => config.lower \in {"True", "False"}
    /\ simPc = "trial" => kwargs.lower \in {"True", "False"}
    /\ ~(trialPc = "raised" /\ err = "KeyError" /\ kwargs.lower = "missing")

====
